---- MODULE Spec2Model ----
(***************************************************************************)
(* A model of the my_bus_tracker client library: the hourly API key        *)
(* (ApiKey), the request builder (MyBusTracker::get_uri) and the service   *)
(* methods that validate their arguments, assemble the query parameters    *)
(* and hand a GET request to the HTTP client.                              *)
(* Spec is the caller that runs each returned future to its end before    *)
(* the next call; SpecSpawned is the caller that keeps several futures     *)
(* pending while it makes further calls.                                   *)
(*                                                                         *)
(* Text is modelled as a sequence of lexemes (TLA+ strings): "&" and "="   *)
(* are lexemes of their own, so a query can be split into its parameters.  *)
(* An Option is a sequence of length 0 (None) or 1 (Some).                 *)
(* The wall clock counts ticks from midnight (UTC) of the epoch date.      *)
(***************************************************************************)
EXTENDS Integers, Sequences, FiniteSets, Bags, TLC

VARIABLES now, api_key, call, http, pending, borrows, resolved

vars == <<now, api_key, call, http, pending, borrows, resolved>>
\* the state of the futures spawned on the reactor
spawned == <<pending, borrows, resolved>>

None == <<>>
Some(x) == <<x>>
IsSome(o) == Len(o) = 1

(***************************************************************************)
(* Bounds of the model.                                                    *)
(***************************************************************************)
\* clock ticks in one hour (the granularity of the modelled clock)
TicksPerHour == 2
\* single ticks the clock may advance beyond its whole-day jumps
MaxTicks == 2
\* futures that may be pending on the reactor at once
MaxPending == 2
\* whole-day jumps the clock may make
MaxDays == 1
\* longest timetable batch a caller passes
MaxTimetables == 6
\* latest date (day number from the epoch date) a caller passes
MaxDate == 4

(***************************************************************************)
(* Constants of the program and of its calendar.                           *)
(***************************************************************************)
HoursPerDay == 24
TimetableLimit == 5
DepartureLimit == 10
DayLimit == 3
U8Max == 255

TicksPerDay == TicksPerHour * HoursPerDay

\* The date of tick 0 (year, month, day of month); the clock starts at
\* 23:00 of that day, so single ticks cross an hour and a date boundary and
\* the first day jump crosses a month boundary.
EpochDate == <<2018, 2, 27>>
StartTick == (HoursPerDay - 1) * TicksPerHour

(***************************************************************************)
(* chrono: the fields of a UTC time and the "%Y%m%d%H" format.             *)
(***************************************************************************)
\* DateTime::date / Utc::today: the day number of a time
DateOf(t) == t \div TicksPerDay
\* Timelike::hour: the hour of the day, 0..23
HourOf(t) == (t \div TicksPerHour) % HoursPerDay

IsLeap(y) == (y % 4 = 0 /\ y % 100 # 0) \/ y % 400 = 0

DaysInMonth(y, m) ==
    IF m = 2 THEN (IF IsLeap(y) THEN 29 ELSE 28)
    ELSE IF m \in {4, 6, 9, 11} THEN 30 ELSE 31

NextDay(ymd) ==
    IF ymd[3] < DaysInMonth(ymd[1], ymd[2]) THEN <<ymd[1], ymd[2], ymd[3] + 1>>
    ELSE IF ymd[2] < 12 THEN <<ymd[1], ymd[2] + 1, 1>>
    ELSE <<ymd[1] + 1, 1, 1>>

RECURSIVE AddDays(_, _)
AddDays(ymd, k) == IF k = 0 THEN ymd ELSE AddDays(NextDay(ymd), k - 1)

\* the calendar date of a day number
Civil(d) == AddDays(EpochDate, d)

\* a number in at least two digits, zero padded (%m, %d, %H, %M)
Pad2(n) == IF n < 10 THEN "0" \o ToString(n) ELSE ToString(n)

\* time.format("%Y%m%d%H")
FormatYmdH(t) ==
    LET c == Civil(DateOf(t))
    IN  ToString(c[1]) \o Pad2(c[2]) \o Pad2(c[3]) \o Pad2(HourOf(t))

\* format!("{:x}", md5::compute(s)): the digest is symbolic and injective
Md5Hex(s) == "md5(" \o s \o ")"

(***************************************************************************)
(* ApiKey                                                                  *)
(***************************************************************************)
\* the developer keys an application is built with
Secrets == {"devkey"}

\* generate_api_key: one clock reading gives the key and its timestamp
generate_api_key(base_key, clock) ==
    LET time == clock
        time_string == FormatYmdH(time)
        raw_key == base_key \o time_string
    IN  [key |-> Md5Hex(raw_key), generated |-> time]

\* ApiKey::new
ApiKeyNew(secret, clock) ==
    LET g == generate_api_key(secret, clock)
    IN  [raw_api_key |-> secret, key |-> g.key, generated |-> g.generated]

\* the same hour test, as a stale-key bug: the key is never regenerated
get_key_never(ak, clock) ==
    [api_key |-> ak, key |-> ak.key, regenerated |-> FALSE]

\* the same hour test, as an eager bug: the key is regenerated on every read
get_key_always(ak, clock) ==
    LET g == generate_api_key(ak.raw_api_key, clock)
    IN  [api_key |-> [ak EXCEPT !.key = g.key, !.generated = g.generated],
         key |-> g.key, regenerated |-> TRUE]

\* the hour test with the timestamp left behind: self.generated is not stored
get_key_keeps_timestamp(ak, clock) ==
    IF HourOf(ak.generated) = HourOf(clock)
    THEN [api_key |-> ak, key |-> ak.key, regenerated |-> FALSE]
    ELSE LET g == generate_api_key(ak.raw_api_key, clock)
         IN  [api_key |-> [ak EXCEPT !.key = g.key],
              key |-> g.key, regenerated |-> TRUE]

\* ApiKey::get_key: the ApiKey after the read, the key returned, and whether
\* generate_api_key ran ("Generating API key" in the log).  The read is
\* instantaneous: the clock reading of the hour test and the one of
\* generate_api_key are the same tick.
get_key(ak, clock) ==
    IF HourOf(ak.generated) = HourOf(clock)
    THEN [api_key |-> ak, key |-> ak.key, regenerated |-> FALSE]
    ELSE LET g == generate_api_key(ak.raw_api_key, clock)
         IN  [api_key |-> [ak EXCEPT !.key = g.key, !.generated = g.generated],
              key |-> g.key, regenerated |-> TRUE]

(***************************************************************************)
(* models.rs: the wire form (Display) of the argument types                *)
(***************************************************************************)
Operators == {"LothianBuses", "AllOperators"}
OperatorDisplay(o) == IF o = "LothianBuses" THEN "LB" ELSE "0"

JourneyTimeModes == {"All", "NextReference"}
JourneyTimeModeDisplay(m) == IF m = "All" THEN "0" ELSE "1"

DisruptionTypes == {"All", "Network", "Service", "BusStop"}
DisruptionTypeDisplay(t) ==
    CASE t = "All" -> "0"
      [] t = "Network" -> "1"
      [] t = "Service" -> "2"
      [] t = "BusStop" -> "3"

\* a JourneyIdentifier is a tagged union of exactly two variants
JourneyIdentifiers ==
    {[tag |-> "JourneyId", id |-> "12345"], [tag |-> "BusId", id |-> "937"]}

\* Timetable (its operator_id is never put on the wire)
TimetablePool ==
    << [stop_id |-> "36232626", service_reference |-> "LB22",
        destination_reference |-> "D1"],
       [stop_id |-> "36234979", service_reference |-> "LB5",
        destination_reference |-> "D2"],
       [stop_id |-> "36232626", service_reference |-> "LB5",
        destination_reference |-> "D3"] >>

(***************************************************************************)
(* chrono: Duration and the "%H:%M" format                                 *)
(***************************************************************************)
\* Duration::days
DurationDays(k) == k * TicksPerDay
\* Date::signed_duration_since
SignedDurationSince(d, today) == DurationDays(d) - DurationDays(today)
\* Duration::num_hours in the place of num_days
NumHours(dur) ==
    IF dur >= 0 THEN dur \div TicksPerHour ELSE -((-dur) \div TicksPerHour)
\* Duration::num_days: whole days, truncated towards zero
NumDays(dur) ==
    IF dur >= 0 THEN dur \div TicksPerDay ELSE -((-dur) \div TicksPerDay)
\* a NaiveTime is <<hour, minute, second>>
FormatHM(time) == Pad2(time[1]) \o ":" \o Pad2(time[2])

RECURSIVE Join(_, _)
\* Vec<String>::join
Join(parts, sep) ==
    IF Len(parts) = 0 THEN <<>>
    ELSE IF Len(parts) = 1 THEN parts[1]
    ELSE parts[1] \o sep \o Join(Tail(parts), sep)

(***************************************************************************)
(* MyBusTracker                                                            *)
(***************************************************************************)
\* Url::parse("http://ws.mybustracker.co.uk/?module=json")
root_url ==
    [base |-> "http://ws.mybustracker.co.uk/",
     query |-> Some(<<"module", "=", "json">>)]

\* format!("key={}&function={}", ..) with the two parameters swapped
merged_params_swapped(key, function, uri_params) ==
    IF uri_params = None
    THEN <<"function", "=", function, "&", "key", "=", key>>
    ELSE <<"function", "=", function, "&", "key", "=", key, "&">> \o uri_params[1]

\* the merged parameters of get_uri
merged_params(key, function, uri_params) ==
    IF uri_params = None
    THEN <<"key", "=", key, "&", "function", "=", function>>
    ELSE <<"key", "=", key, "&", "function", "=", function, "&">> \o uri_params[1]

\* MyBusTracker::get_uri.  parses is the verdict of hyper's Uri parser on
\* the assembled string.
get_uri(ak, clock, function, uri_params, parses) ==
    LET r == get_key(ak, clock)
        merged == merged_params(r.key, function, uri_params)
        query == root_url.query
        query_string == IF query = None THEN merged
                        ELSE query[1] \o <<"&">> \o merged
        uri == [root_url EXCEPT !.query = Some(query_string)]
    IN  [api_key |-> r.api_key, key |-> r.key, regenerated |-> r.regenerated,
         ok |-> parses, uri |-> uri]

\* Request::new(Method::Get, uri)
RequestNew(uri) == [method |-> "GET", uri |-> uri]

\* futures::failed(kind), returned before get_uri is reached
Failed(ak, kind) ==
    [api_key |-> ak, outcome |-> kind, function |-> None, params |-> None,
     uri |-> None, key |-> None, regenerated |-> FALSE, request |-> None]

\* the tail of every service method: get_uri, then make_request on a GET
\* request, or futures::failed(uri_error)
Send(ak, clock, function, uri_params, parses) ==
    LET u == get_uri(ak, clock, function, Some(uri_params), parses)
    IN  [api_key |-> u.api_key,
         outcome |-> IF u.ok THEN "Request" ELSE "InternalError",
         function |-> Some(function), params |-> Some(uri_params),
         uri |-> IF u.ok THEN Some(u.uri) ELSE None,
         key |-> Some(u.key), regenerated |-> u.regenerated,
         request |-> IF u.ok THEN Some(RequestNew(u.uri)) ELSE None]

\* the date test with an off-by-one window
date_out_of_bounds_short(day_difference) ==
    day_difference >= DurationDays(DayLimit) \/ day_difference < DurationDays(0)

\* the date test of get_bus_times, get_journey_times and get_diversions
date_out_of_bounds(day_difference) ==
    day_difference > DurationDays(DayLimit) \/ day_difference < DurationDays(0)

\* the batch test with an off-by-one limit
too_many_timetables_short(timetables) == Len(timetables) >= TimetableLimit

\* the batch test of get_bus_times
too_many_timetables(timetables) == Len(timetables) > TimetableLimit

\* the count test with an off-by-one limit
too_many_departures_long(departure_count) == departure_count > DepartureLimit + 1

\* the count test of get_bus_times
too_many_departures(departure_count) == departure_count > DepartureLimit

\* the timetable groups of get_bus_times, numbered from 1
time_requests(timetables) ==
    Join([i \in 1..Len(timetables) |->
            <<"stopId" \o ToString(i), "=", timetables[i].stop_id, "&",
              "refService" \o ToString(i), "=", timetables[i].service_reference, "&",
              "refDest" \o ToString(i), "=", timetables[i].destination_reference>>],
         <<"&">>)

\* get_bus_times with the date tested first and the batch length last
get_bus_times_date_first(ak, clock, timetables, departure_count, departure_day, departure_time, parses) ==
    LET day_difference ==
            IF IsSome(departure_day)
            THEN SignedDurationSince(departure_day[1], DateOf(clock))
            ELSE DurationDays(0)
    IN  IF date_out_of_bounds(day_difference) THEN Failed(ak, "DateOutOfBounds")
        ELSE IF too_many_departures(departure_count)
        THEN Failed(ak, "TooManyDepartures")
        ELSE IF too_many_timetables(timetables)
        THEN Failed(ak, "TooManyTimetables")
        ELSE
        LET departure_time_string ==
                IF IsSome(departure_time)
                THEN <<"&", "time", "=", FormatHM(departure_time[1])>>
                ELSE <<>>
            uri_params ==
                time_requests(timetables)
                    \o <<"&", "nb", "=", ToString(departure_count),
                         "&", "day", "=", ToString(NumDays(day_difference))>>
                    \o departure_time_string
        IN  Send(ak, clock, "getBusTimes", uri_params, parses)

\* BusTimesService::get_bus_times
get_bus_times(ak, clock, timetables, departure_count, departure_day, departure_time, parses) ==
    IF too_many_timetables(timetables) THEN Failed(ak, "TooManyTimetables")
    ELSE IF too_many_departures(departure_count)
    THEN Failed(ak, "TooManyDepartures")
    ELSE
    LET day_difference ==
            IF IsSome(departure_day)
            THEN SignedDurationSince(departure_day[1], DateOf(clock))
            ELSE DurationDays(0)
    IN  IF date_out_of_bounds(day_difference) THEN Failed(ak, "DateOutOfBounds")
        ELSE
        LET departure_time_string ==
                IF IsSome(departure_time)
                THEN <<"&", "time", "=", FormatHM(departure_time[1])>>
                ELSE <<>>
            uri_params ==
                time_requests(timetables)
                    \o <<"&", "nb", "=", ToString(departure_count),
                         "&", "day", "=", ToString(NumDays(day_difference))>>
                    \o departure_time_string
        IN  Send(ak, clock, "getBusTimes", uri_params, parses)

\* the parameters of get_journey_times with the stop after the identifier
journey_params_stop_last(stop_id, journey_id, operator, day_difference, mode) ==
    LET stop_id_string ==
            IF IsSome(stop_id) THEN <<"stopId", "=", stop_id[1], "&">> ELSE <<>>
        journey_id_string ==
            IF journey_id.tag = "JourneyId"
            THEN <<"journeyId", "=", journey_id.id, "&">>
            ELSE <<"busId", "=", journey_id.id, "&">>
    IN  journey_id_string \o stop_id_string
            \o <<"operator", "=", OperatorDisplay(operator),
                 "&", "day", "=", ToString(NumDays(day_difference)),
                 "&", "mode", "=", JourneyTimeModeDisplay(mode)>>

\* the parameters of get_journey_times
journey_params(stop_id, journey_id, operator, day_difference, mode) ==
    LET stop_id_string ==
            IF IsSome(stop_id) THEN <<"stopId", "=", stop_id[1], "&">> ELSE <<>>
        journey_id_string ==
            IF journey_id.tag = "JourneyId"
            THEN <<"journeyId", "=", journey_id.id, "&">>
            ELSE <<"busId", "=", journey_id.id, "&">>
    IN  stop_id_string \o journey_id_string
            \o <<"operator", "=", OperatorDisplay(operator),
                 "&", "day", "=", ToString(NumDays(day_difference)),
                 "&", "mode", "=", JourneyTimeModeDisplay(mode)>>

\* BusTimesService::get_journey_times
get_journey_times(ak, clock, stop_id, journey_id, operator, day, mode, parses) ==
    LET day_difference == SignedDurationSince(day, DateOf(clock))
    IN  IF date_out_of_bounds(day_difference) THEN Failed(ak, "DateOutOfBounds")
        ELSE Send(ak, clock, "getJourneyTimes",
                  journey_params(stop_id, journey_id, operator, day_difference, mode),
                  parses)

\* get_disruptions with another default type
get_disruptions_default_network(ak, clock, disruption_type, operator, parses) ==
    LET dtype == IF IsSome(disruption_type) THEN disruption_type[1] ELSE "Network"
        uri_params == <<"operatorId", "=", OperatorDisplay(operator),
                        "&", "type", "=", DisruptionTypeDisplay(dtype)>>
    IN  Send(ak, clock, "getDisruptions", uri_params, parses)

\* DisruptionsServices::get_disruptions
get_disruptions(ak, clock, disruption_type, operator, parses) ==
    LET dtype == IF IsSome(disruption_type) THEN disruption_type[1] ELSE "All"
        uri_params == <<"operatorId", "=", OperatorDisplay(operator),
                        "&", "type", "=", DisruptionTypeDisplay(dtype)>>
    IN  Send(ak, clock, "getDisruptions", uri_params, parses)

\* get_diversions with the date test after the request is built
get_diversions_late_check(ak, clock, service_reference, day, operator, parses) ==
    LET sref == IF IsSome(service_reference) THEN service_reference[1] ELSE "0"
        day_difference ==
            IF IsSome(day) THEN SignedDurationSince(day[1], DateOf(clock))
            ELSE DurationDays(0)
        uri_params == <<"operatorId", "=", OperatorDisplay(operator),
                        "&", "refService", "=", sref,
                        "&", "day", "=", ToString(NumDays(day_difference))>>
        sent == Send(ak, clock, "getDiversions", uri_params, parses)
    IN  IF date_out_of_bounds(day_difference)
        THEN [sent EXCEPT !.outcome = "DateOutOfBounds"]
        ELSE sent

\* DisruptionsServices::get_diversions
get_diversions(ak, clock, service_reference, day, operator, parses) ==
    LET sref == IF IsSome(service_reference) THEN service_reference[1] ELSE "0"
        day_difference ==
            IF IsSome(day) THEN SignedDurationSince(day[1], DateOf(clock))
            ELSE DurationDays(0)
    IN  IF date_out_of_bounds(day_difference) THEN Failed(ak, "DateOutOfBounds")
        ELSE
        LET uri_params == <<"operatorId", "=", OperatorDisplay(operator),
                            "&", "refService", "=", sref,
                            "&", "day", "=", ToString(NumDays(day_difference))>>
        IN  Send(ak, clock, "getDiversions", uri_params, parses)

\* DisruptionsServices::get_diversion_points
get_diversion_points(ak, clock, diversion, operator, parses) ==
    Send(ak, clock, "getDiversionPoints",
         <<"operatorId", "=", OperatorDisplay(operator),
           "&", "diversionId", "=", diversion>>, parses)

\* TopologicalServices: get_topo_id, get_services, get_destinations and
\* get_bus_stops differ in the function name only
get_topological(ak, clock, function, operator, parses) ==
    Send(ak, clock, function, <<"operatorId", "=", OperatorDisplay(operator)>>, parses)

\* TopologicalServices::get_service_points
get_service_points(ak, clock, service_reference, operator, parses) ==
    Send(ak, clock, "getServicePoints",
         <<"operatorId", "=", OperatorDisplay(operator),
           "&", "ref", "=", service_reference>>, parses)

(***************************************************************************)
(* State.                                                                  *)
(*   now      the wall clock (UTC), in ticks                               *)
(*   api_key  the ApiKey in the RefCell of the MyBusTracker                *)
(*   call     the call whose returned value the caller holds: its          *)
(*            arguments, what it returned, the ApiKey before it and the    *)
(*            clock at it; for a direct key read, prev is the key read     *)
(*            just before it (the key and the clock of that read);         *)
(*            function and params are what the call passed to get_uri      *)
(*   http     the request handed to the HTTP client and not yet completed  *)
(***************************************************************************)
(***************************************************************************)
(* The futures the service methods return.                                 *)
(***************************************************************************)
\* futures::failed(e): resolves to the error at its first poll
failed(kind) ==
    [stage |-> "failed", error |-> kind, request |-> None, gets |-> 0,
     holds |-> 0]

\* MyBusTracker::make_request: client.request(request), then the body
\* folded into one buffer, then serde_json::from_slice; gets counts the
\* calls of client.request made for the future
make_request(request) ==
    [stage |-> "response", error |-> "none", request |-> Some(request),
     gets |-> 1, holds |-> 0]

\* the future a service method returns, from what the method did
FutureOf(r) ==
    IF IsSome(r.request) THEN make_request(r.request[1]) ELSE failed(r.outcome)

\* what the reactor can tell a future of each stage
Events(stage) ==
    IF stage = "failed" THEN {"ready"}
    ELSE IF stage = "response" THEN {"response", "network_error"}
    ELSE {"decoded", "body_error", "json_error"}

Pending(f) == [ready |-> FALSE, future |-> f, outcome |-> "none"]
Ready(f, outcome) == [ready |-> TRUE, future |-> f, outcome |-> outcome]

\* a chain that sends the request again when the exchange fails
poll_retry(f, event) ==
    IF f.stage = "failed" THEN Ready(f, f.error)
    ELSE IF f.stage = "response"
    THEN IF event = "network_error"
         THEN Pending([f EXCEPT !.gets = f.gets + 1])
         ELSE Pending([f EXCEPT !.stage = "body"])
    ELSE IF event = "body_error" THEN Ready(f, "InternalError")
    ELSE IF event = "json_error" THEN Ready(f, "InternalError")
    ELSE Ready(f, "Ok")

\* a chain whose body error is mapped like the error of the exchange
poll_body_as_communication(f, event) ==
    IF f.stage = "failed" THEN Ready(f, f.error)
    ELSE IF f.stage = "response"
    THEN IF event = "network_error"
         THEN Ready(f, "CommunicationError")
         ELSE Pending([f EXCEPT !.stage = "body"])
    ELSE IF event = "body_error" THEN Ready(f, "CommunicationError")
    ELSE IF event = "json_error" THEN Ready(f, "InternalError")
    ELSE Ready(f, "Ok")

\* a chain that puts the key now stored into the query when it is polled
poll_rebuilds_uri(f, event) ==
    IF f.stage = "failed" THEN Ready(f, f.error)
    ELSE IF f.stage = "response"
    THEN IF event = "network_error"
         THEN Ready(f, "CommunicationError")
         ELSE Pending([f EXCEPT !.stage = "body",
                                !.request[1].uri.query[1][7] = api_key.key])
    ELSE IF event = "body_error" THEN Ready(f, "InternalError")
    ELSE IF event = "json_error" THEN Ready(f, "InternalError")
    ELSE Ready(f, "Ok")

\* one poll of the future of a service method: the combinators of
\* make_request (map_err, and_then, and_then), or futures::failed
poll(f, event) ==
    IF f.stage = "failed" THEN Ready(f, f.error)
    ELSE IF f.stage = "response"
    THEN IF event = "network_error"
         THEN Ready(f, "CommunicationError")
         ELSE Pending([f EXCEPT !.stage = "body"])
    ELSE IF event = "body_error" THEN Ready(f, "InternalError")
    ELSE IF event = "json_error" THEN Ready(f, "InternalError")
    ELSE Ready(f, "Ok")

\* a RefMut of the key cell that lives on in the returned future
borrows_kept_in_future(held) == held + 1
\* the borrows of the key cell left when get_uri has read the key: the
\* RefMut of borrow_mut() is a temporary, dropped at the end of the statement
borrows_after_get_uri(held) == held

NoArgs == [n |-> 0]

Idle ==
    [op |-> "idle", args |-> NoArgs, outcome |-> "none", function |-> None,
     params |-> None, uri |-> None, key |-> None, regenerated |-> FALSE,
     before |-> ApiKeyNew("", 0), at |-> 0, prev |-> None]

\* the arguments callers pass
Batch(n) == [i \in 1..n |-> TimetablePool[((i - 1) % Len(TimetablePool)) + 1]]
Batches == {Batch(n) : n \in 0..MaxTimetables}
DepartureCounts ==
    {0, 1, 2, DepartureLimit - 1, DepartureLimit, DepartureLimit + 1, U8Max}
Dates == (-1)..MaxDate
\* nothing resolved yet
NoResult == [outcome |-> "none", event |-> "none", from |-> "none", gets |-> 0]
OptionalDates == {None} \cup {Some(d) : d \in Dates}
OptionalTimes == {None, Some(<<9, 5, 30>>)}
OptionalStops == {None, Some("36232626")}
OptionalServices == {None, Some("LB22")}
OptionalDisruptionTypes == {None} \cup {Some(t) : t \in DisruptionTypes}
TopologicalFunctions == {"getTopoId", "getServices", "getDests", "getBusStops"}

Init ==
    /\ now = StartTick
    /\ \E secret \in Secrets : api_key = ApiKeyNew(secret, now)
    /\ call = Idle
    /\ http = None
    /\ pending = EmptyBag
    /\ borrows = 0
    /\ resolved = NoResult

\* The wall clock advances by one tick or by one day.  A service method
\* runs to its return without suspending and reads the clock inside; the
\* time that passes while the caller holds the returned value is the time
\* that passes after Complete.
Tick ==
    \E step \in {1, TicksPerDay} :
        /\ call.op \in {"idle", "get_key"}
        /\ now + step <= StartTick + MaxDays * TicksPerDay + MaxTicks
        /\ (step = 1 => (now - StartTick) % TicksPerDay < MaxTicks)
        /\ now' = now + step
        /\ UNCHANGED <<api_key, call, http>>
        /\ UNCHANGED spawned

\* a direct read of the key: ApiKey::get_key
GetKey ==
    /\ LET r == get_key(api_key, now)
       IN  /\ api_key' = r.api_key
           /\ call' = [Idle EXCEPT
                         !.op = "get_key", !.outcome = "Key",
                         !.key = Some(r.key), !.regenerated = r.regenerated,
                         !.before = api_key, !.at = now,
                         !.prev = IF IsSome(call.key)
                                  THEN Some([key |-> call.key[1], at |-> call.at])
                                  ELSE None]
    /\ UNCHANGED <<now, http>>
    /\ UNCHANGED spawned

\* a service method is called and returns r: the ApiKey is left as get_uri
\* left it, and the request of make_request is with the HTTP client
Returns(op, args, r) ==
    /\ api_key' = r.api_key
    /\ call' = [op |-> op, args |-> args, outcome |-> r.outcome,
                function |-> r.function, params |-> r.params, uri |-> r.uri, key |-> r.key,
                regenerated |-> r.regenerated, before |-> api_key, at |-> now,
                prev |-> None]
    /\ http' = r.request
    /\ UNCHANGED now
    /\ UNCHANGED spawned

GetBusTimes ==
    \E timetables \in Batches, departure_count \in DepartureCounts,
       departure_day \in OptionalDates, departure_time \in OptionalTimes,
       parses \in BOOLEAN :
        /\ call.op = "idle"
        /\ Returns("get_bus_times",
                [timetables |-> timetables, departure_count |-> departure_count,
                 departure_day |-> departure_day, departure_time |-> departure_time],
                get_bus_times(api_key, now, timetables, departure_count,
                              departure_day, departure_time, parses))

GetJourneyTimes ==
    \E stop_id \in OptionalStops, journey_id \in JourneyIdentifiers,
       operator \in Operators, day \in Dates, mode \in JourneyTimeModes,
       parses \in BOOLEAN :
        /\ call.op = "idle"
        /\ Returns("get_journey_times",
                [stop_id |-> stop_id, journey_id |-> journey_id,
                 operator |-> operator, day |-> Some(day), mode |-> mode],
                get_journey_times(api_key, now, stop_id, journey_id, operator,
                                  day, mode, parses))

GetDisruptions ==
    \E disruption_type \in OptionalDisruptionTypes, operator \in Operators,
       parses \in BOOLEAN :
        /\ call.op = "idle"
        /\ Returns("get_disruptions",
                [disruption_type |-> disruption_type, operator |-> operator],
                get_disruptions(api_key, now, disruption_type, operator, parses))

GetDiversions ==
    \E service_reference \in OptionalServices, day \in OptionalDates,
       operator \in Operators, parses \in BOOLEAN :
        /\ call.op = "idle"
        /\ Returns("get_diversions",
                [service_reference |-> service_reference, day |-> day,
                 operator |-> operator],
                get_diversions(api_key, now, service_reference, day, operator,
                               parses))

GetDiversionPoints ==
    \E operator \in Operators, parses \in BOOLEAN :
        /\ call.op = "idle"
        /\ Returns("get_diversion_points",
                [diversion |-> "77", operator |-> operator],
                get_diversion_points(api_key, now, "77", operator, parses))

GetTopological ==
    \E function \in TopologicalFunctions, operator \in Operators,
       parses \in BOOLEAN :
        /\ call.op = "idle"
        /\ Returns("get_topological",
                [function |-> function, operator |-> operator],
                get_topological(api_key, now, function, operator, parses))

GetServicePoints ==
    \E operator \in Operators, parses \in BOOLEAN :
        /\ call.op = "idle"
        /\ Returns("get_service_points",
                [service_reference |-> "LB22", operator |-> operator],
                get_service_points(api_key, now, "LB22", operator, parses))

\* the reactor drives the returned future to its end and the caller drops it
Complete ==
    /\ call.op # "idle"
    /\ call' = Idle
    /\ http' = None
    /\ UNCHANGED <<now, api_key>>
    /\ UNCHANGED spawned

Next ==
    \/ Tick
    \/ GetKey
    \/ GetBusTimes
    \/ GetJourneyTimes
    \/ GetDisruptions
    \/ GetDiversions
    \/ GetDiversionPoints
    \/ GetTopological
    \/ GetServicePoints
    \/ Complete

Spec == Init /\ [][Next]_vars

(***************************************************************************)
(* The caller that spawns the returned futures on the reactor: a service   *)
(* method is called while earlier futures are pending, and the reactor     *)
(* polls the pending futures in any order.  The requests in flight are     *)
(* those of the futures in pending.                                        *)
(***************************************************************************)
\* the dates the spawning caller asks for
SpawnDates == {None, Some(DateOf(StartTick)), Some(DateOf(StartTick) + 1)}

\* time passes while futures are pending
Elapse ==
    /\ now + 1 <= StartTick + MaxTicks
    /\ now' = now + 1
    /\ UNCHANGED <<api_key, call, http, spawned>>

\* a service method called with futures pending returns r.  When it gets
\* as far as get_uri it borrows the key cell: borrow_mut panics if the cell
\* is borrowed already.
Spawns(op, args, r) ==
    /\ IF IsSome(r.key) /\ borrows > 0
       THEN /\ call' = [Idle EXCEPT !.op = op, !.args = args,
                                    !.outcome = "BorrowMutPanic",
                                    !.before = api_key, !.at = now]
            /\ UNCHANGED <<api_key, spawned>>
       ELSE LET kept == IF IsSome(r.key)
                        THEN borrows_after_get_uri(borrows) - borrows
                        ELSE 0
            IN  /\ api_key' = r.api_key
                /\ call' = [op |-> op, args |-> args, outcome |-> r.outcome,
                            function |-> r.function, params |-> r.params,
                            uri |-> r.uri, key |-> r.key,
                            regenerated |-> r.regenerated, before |-> api_key,
                            at |-> now, prev |-> None]
                /\ pending' = pending (+) SetToBag({[FutureOf(r) EXCEPT !.holds = kept]})
                /\ borrows' = borrows + kept
                /\ UNCHANGED resolved
    /\ UNCHANGED <<now, http>>

SpawnDiversions ==
    \E day \in SpawnDates, parses \in BOOLEAN :
        /\ BagCardinality(pending) < MaxPending
        /\ Spawns("get_diversions",
                  [service_reference |-> None, day |-> day,
                   operator |-> "AllOperators"],
                  get_diversions(api_key, now, None, day, "AllOperators", parses))

SpawnTopological ==
    /\ BagCardinality(pending) < MaxPending
    /\ Spawns("get_topological",
              [function |-> "getTopoId", operator |-> "AllOperators"],
              get_topological(api_key, now, "getTopoId", "AllOperators", TRUE))

\* the reactor polls one pending future; a future that resolves is taken
\* off the reactor with what it holds, and its result is delivered
Poll ==
    \E f \in BagToSet(pending) : \E event \in Events(f.stage) :
        LET r == poll(f, event)
            rest == pending (-) SetToBag({f})
        IN  /\ pending' = IF r.ready THEN rest ELSE rest (+) SetToBag({r.future})
            /\ borrows' = IF r.ready THEN borrows - f.holds ELSE borrows
            /\ resolved' = IF r.ready
                           THEN [outcome |-> r.outcome, event |-> event,
                                 from |-> f.stage, gets |-> r.future.gets]
                           ELSE resolved
            /\ UNCHANGED <<now, api_key, call, http>>

NextSpawned ==
    \/ Elapse
    \/ SpawnDiversions
    \/ SpawnTopological
    \/ Poll

SpecSpawned == Init /\ [][NextSpawned]_vars

(***************************************************************************)
(* Properties                                                              *)
(***************************************************************************)
\* the UTC clock hour (date and hour) a time lies in
ClockHour(t) == t \div TicksPerHour
\* the token of a secret for the clock hour of a time
TokenAt(secret, t) == Md5Hex(secret \o FormatYmdH(t))
\* the call read the key
KeyRead == IsSome(call.key)
\* the direct key read has a known predecessor read
TwoReads == call.op = "get_key" /\ IsSome(call.prev)

ValidationErrors == {"TooManyTimetables", "TooManyDepartures", "DateOutOfBounds"}
\* the call got as far as get_uri
Accepted == call.outcome \in {"Request", "InternalError"}

Range(seq) == {seq[i] : i \in 1..Len(seq)}

\* C1: the key returned by a read is the token of the secret for the UTC
\* clock hour (date and hour) of the clock at the read.
C1_TokenFreshAtRead ==
    KeyRead => call.key[1] = TokenAt(api_key.raw_api_key, call.at)

\* C2: two consecutive reads in the same UTC clock hour return the same
\* token; the second one does not regenerate and leaves the stored key and
\* timestamp as they were.
C2_StableWithinHour ==
    (TwoReads /\ ClockHour(call.prev[1].at) = ClockHour(call.at))
        => /\ call.key[1] = call.prev[1].key
           /\ ~call.regenerated
           /\ api_key = call.before

\* two reads half an hour apart, in one clock hour
C2_Witness ==
    /\ TwoReads
    /\ ClockHour(call.prev[1].at) = ClockHour(call.at)
    /\ call.prev[1].at < call.at
    /\ call.key[1] = call.prev[1].key

\* C3: a read in UTC hour N followed by a read in hour N+1: the second read
\* returns another token, the token of hour N+1, and the stored timestamp
\* lies in hour N+1.
C3_RefreshOnHourBoundary ==
    (TwoReads /\ ClockHour(call.at) = ClockHour(call.prev[1].at) + 1)
        => /\ call.key[1] # call.prev[1].key
           /\ call.key[1] = TokenAt(api_key.raw_api_key, call.at)
           /\ ClockHour(api_key.generated) = ClockHour(call.at)

\* a read at 23:xx followed by a read at 00:xx of the next day
C3_Witness ==
    /\ TwoReads
    /\ ClockHour(call.at) = ClockHour(call.prev[1].at) + 1
    /\ call.regenerated
    /\ DateOf(call.at) = DateOf(call.prev[1].at) + 1

\* C4: a read regenerates the token if and only if it is the first read
\* since the UTC clock hour (date and hour) moved away from the hour of the
\* stored generation.
C4_RegeneratesIffFirstSinceCrossing ==
    KeyRead =>
        LET moved == ClockHour(call.before.generated) # ClockHour(call.at)
            read_since ==
                /\ IsSome(call.prev)
                /\ call.prev[1].at >= call.before.generated
                /\ ClockHour(call.prev[1].at) # ClockHour(call.before.generated)
        IN  call.regenerated <=> (moved /\ ~read_since)

\* the date argument of a date-bounded call
CallDay ==
    IF call.op = "get_bus_times" THEN call.args.departure_day
    ELSE IF call.op \in {"get_journey_times", "get_diversions"} THEN call.args.day
    ELSE None
\* a date-bounded call that was given a date
Dated == IsSome(CallDay)
\* d - today_utc, in days, at the call
Offset == CallDay[1] - DateOf(call.at)
InWindow == 0 <= Offset /\ Offset <= 3
\* the call gets as far as its date test
ReachesDateTest ==
    call.op = "get_bus_times" =>
        Len(call.args.timetables) <= 5 /\ call.args.departure_count <= 10

\* C5 as stated: a date-bounded call passes iff 0 <= d - today <= 3 and
\* fails with DateOutOfBounds for every other d, whichever the endpoint.
C5_DateWindowWhateverTheCall ==
    Dated => /\ InWindow => Accepted
             /\ ~InWindow => call.outcome = "DateOutOfBounds"

\* C5 amended: a date-bounded call that reaches its date test (always, but
\* for get_bus_times only with at most 5 timetables and a count of at most
\* 10) passes iff 0 <= d - today <= 3 and otherwise fails with
\* DateOutOfBounds; a get_bus_times call that does not reach it fails with
\* TooManyTimetables or TooManyDepartures, whatever the date.
C5_DateWindow ==
    Dated =>
        IF ReachesDateTest
        THEN /\ InWindow <=> Accepted
             /\ ~InWindow <=> call.outcome = "DateOutOfBounds"
        ELSE call.outcome \in {"TooManyTimetables", "TooManyDepartures"}

\* each endpoint's date test is decided at the edge of the window
C5_Witness ==
    /\ Dated
    /\ call.op = "get_bus_times"
    /\ ReachesDateTest
    /\ Offset = 4
    /\ call.outcome = "DateOutOfBounds"

\* the date of a get_bus_times call is absent or in the window
BusDateOk == ~Dated \/ InWindow

C8_ValidationHasNoEffect ==
    call.outcome \in ValidationErrors
        => /\ http = None
           /\ call.uri = None
           /\ call.params = None
           /\ call.key = None
           /\ api_key = call.before

\* six timetables, refused in an hour in which a read would regenerate
C8_Witness ==
    /\ call.op = "get_bus_times"
    /\ Len(call.args.timetables) = 6
    /\ call.outcome = "TooManyTimetables"
    /\ HourOf(api_key.generated) # HourOf(call.at)
    /\ http = None

Positions(seq, lexeme) == {i \in 1..Len(seq) : seq[i] = lexeme}
\* the call is one of the three date-bounded methods
DateBounded ==
    call.op \in {"get_bus_times", "get_journey_times", "get_diversions"}

\* C11: with no disruption type get_disruptions sends type=0 (with
\* AllOperators: operatorId=0&type=0); with no service reference
\* get_diversions sends refService=0; with no date get_diversions and
\* get_bus_times send day=0 and never fail the date test.
C11_Defaults ==
    /\ (call.op = "get_disruptions" /\ call.args.disruption_type = None)
         => /\ Accepted
            /\ SubSeq(call.params[1], 4, 7) = <<"&", "type", "=", "0">>
            /\ Len(call.params[1]) = 7
            /\ call.args.operator = "AllOperators"
                 => call.params[1] = <<"operatorId", "=", "0", "&", "type", "=", "0">>
    /\ (call.op = "get_diversions" /\ call.args.service_reference = None /\ Accepted)
         => SubSeq(call.params[1], 4, 7) = <<"&", "refService", "=", "0">>
    /\ (call.op \in {"get_diversions", "get_bus_times"} /\ CallDay = None)
         => /\ call.outcome # "DateOutOfBounds"
            /\ Accepted =>
                 \E i \in Positions(call.params[1], "day") :
                     SubSeq(call.params[1], i, i + 2) = <<"day", "=", "0">>

\* get_disruptions(None, AllOperators), the day after the ApiKey was built
C11_Witness ==
    /\ call.op = "get_disruptions"
    /\ call.args.disruption_type = None
    /\ call.args.operator = "AllOperators"
    /\ call.outcome = "Request"
    /\ DateOf(call.at) > DateOf(StartTick)

\* C12: every request built by a date-bounded method carries day=<k> once,
\* k the whole-day difference of the requested date (today when absent)
\* and the caller's UTC date at the call, and k is one of 0, 1, 2, 3.
C12_DayOffsetOnTheWire ==
    (DateBounded /\ Accepted) =>
        LET p == call.params[1]
            k == IF Dated THEN Offset ELSE 0
        IN  /\ Cardinality(Positions(p, "day")) = 1
            /\ \A i \in Positions(p, "day") :
                   /\ i + 2 <= Len(p)
                   /\ p[i + 1] = "="
                   /\ p[i + 2] = ToString(k)
            /\ k \in 0..3
            /\ call.outcome = "Request"
                 => \E j \in Positions(call.uri[1].query[1], "day") :
                        call.uri[1].query[1][j + 2] = ToString(k)

\* a journey three days ahead, asked for after midnight
C12_Witness ==
    /\ call.op = "get_journey_times"
    /\ call.outcome = "Request"
    /\ Offset = 3
    /\ DateOf(call.at) = DateOf(StartTick) + 1

\* C15: get_journey_times issues no request for a JourneyId without a stop.
C15_StopRequiredWithJourneyId ==
    (/\ call.op = "get_journey_times"
     /\ call.args.journey_id.tag = "JourneyId"
     /\ call.args.stop_id = None)
        => /\ call.outcome # "Request"
           /\ http = None

\* C16: a get_bus_times call that builds a request has 1 to 5 timetables
\* and a departure_count of 1 to 10.
C16_DocumentedLowerBounds ==
    (call.op = "get_bus_times" /\ call.outcome = "Request") =>
        /\ Len(call.args.timetables) \in 1..5
        /\ call.args.departure_count \in 1..10

\* the parameters of a query: the text between the "&" lexemes
RECURSIVE SplitAmp(_)
SplitAmp(seq) ==
    IF Positions(seq, "&") = {} THEN <<seq>>
    ELSE LET i == CHOOSE k \in Positions(seq, "&") :
                      \A m \in Positions(seq, "&") : k <= m
         IN  <<SubSeq(seq, 1, i - 1)>> \o SplitAmp(SubSeq(seq, i + 1, Len(seq)))
\* a parameter of the form key=value, neither of them empty
IsPair(param) == Len(param) = 3 /\ param[2] = "=" /\ param[1] # "" /\ param[3] # ""

\* the layout of the groups, of nb and day, and of the optional time
BusTimesLayout ==
    LET a == call.args
        p == call.params[1]
        n == Len(a.timetables)
        groups == IF n = 0 THEN 0 ELSE 12 * n - 1
        k == IF Dated THEN Offset ELSE 0
    IN  /\ \A i \in 1..n :
               SubSeq(p, 12 * (i - 1) + 1, 12 * (i - 1) + 11) =
                   <<"stopId" \o ToString(i), "=", a.timetables[i].stop_id, "&",
                     "refService" \o ToString(i), "=",
                     a.timetables[i].service_reference, "&",
                     "refDest" \o ToString(i), "=",
                     a.timetables[i].destination_reference>>
        /\ \A i \in 1..(n - 1) : p[12 * i] = "&"
        /\ SubSeq(p, groups + 1, groups + 8) =
               <<"&", "nb", "=", ToString(a.departure_count),
                 "&", "day", "=", ToString(k)>>
        /\ IF IsSome(a.departure_time)
           THEN /\ Len(p) = groups + 12
                /\ SubSeq(p, groups + 9, groups + 11) = <<"&", "time", "=">>
                /\ p[groups + 12] \in {"09:05"}
           ELSE Len(p) = groups + 8
\* every parameter of the query of the call is a non-empty key=value pair
QueryOfPairs ==
    call.outcome = "Request" =>
        LET params == SplitAmp(call.uri[1].query[1])
        IN  \A i \in 1..Len(params) : IsPair(params[i])

\* C17: the parameters of an accepted get_bus_times call are the n groups
\* stopId<i>=..&refService<i>=..&refDest<i>=.. in the order given, i from
\* 1, then &nb=<count>&day=<offset>, then &time=HH:MM iff a time was
\* given; every parameter of the resulting query is a non-empty pair.
C17_BusTimesLayout ==
    (call.op = "get_bus_times" /\ Accepted) => BusTimesLayout /\ QueryOfPairs

\* C19: the stored key is the token of the secret for the stored
\* timestamp; key and timestamp change only together, to the token and
\* the time of one clock reading; the secret never changes.
C19_StoredPairConsistent ==
    /\ [](api_key.key = TokenAt(api_key.raw_api_key, api_key.generated))
    /\ [][/\ api_key'.raw_api_key = api_key.raw_api_key
          /\ (api_key'.key # api_key.key \/ api_key'.generated # api_key.generated)
               => /\ api_key'.generated = now
                  /\ api_key'.key = TokenAt(api_key.raw_api_key, now)]_vars

\* the pair replaced by a read after midnight
C19_Witness ==
    /\ KeyRead
    /\ call.regenerated
    /\ api_key.generated > StartTick
    /\ api_key.key # call.before.key

\* C20: get_bus_times tests the batch length, then the count, then the
\* date: more than 5 timetables fail with TooManyTimetables whatever the
\* count and the date; at most 5 timetables with a count above 10 fail with
\* TooManyDepartures whatever the date.
C20_ValidationPrecedence ==
    call.op = "get_bus_times" =>
        LET n == Len(call.args.timetables)
            c == call.args.departure_count
        IN  /\ n > 5 => call.outcome = "TooManyTimetables"
            /\ (n <= 5 /\ c > 10) => call.outcome = "TooManyDepartures"
            /\ call.outcome = "DateOutOfBounds" => (n <= 5 /\ c <= 10)

\* all three tests violated at once
C20_Witness ==
    /\ call.op = "get_bus_times"
    /\ Len(call.args.timetables) > 5
    /\ call.args.departure_count > 10
    /\ Dated
    /\ ~InWindow
    /\ call.outcome = "TooManyTimetables"

\* the kinds of outcome a future resolves to
Outcomes ==
    {"Ok", "CommunicationError", "InternalError", "DateOutOfBounds",
     "TooManyTimetables", "TooManyDepartures"}
\* the call got as far as get_uri and the assembled URI did not parse
UriRefused == IsSome(call.key) /\ call.uri = None

\* C13: a URI that does not parse gives InternalError and no GET; a failed
\* exchange gives CommunicationError; a failed body read or JSON decode
\* gives InternalError; no other stage gives either kind; a call whose
\* stages all succeed resolves to its value.
C13_FailureKinds ==
    /\ UriRefused <=> call.outcome = "InternalError"
    /\ call.outcome # "CommunicationError"
    /\ \A f \in BagToSet(pending) :
           /\ f.stage = "failed" <=> f.error # "none"
           /\ f.stage = "failed" <=> f.request = None
           /\ f.error # "CommunicationError"
    /\ resolved.event = "network_error" <=> resolved.outcome = "CommunicationError"
    /\ resolved.event \in {"body_error", "json_error"}
           => resolved.outcome = "InternalError"
    /\ resolved.outcome = "InternalError"
           => \/ resolved.event \in {"body_error", "json_error"}
              \/ resolved.from = "failed" /\ resolved.gets = 0
    /\ resolved.event = "decoded" <=> resolved.outcome = "Ok"
    /\ resolved.outcome = "Ok" => resolved.from = "body" /\ resolved.gets = 1

\* a body that could not be read, with another request still in flight
C13_Witness ==
    /\ resolved.event = "body_error"
    /\ resolved.outcome = "InternalError"
    /\ \E f \in BagToSet(pending) : f.stage = "response"

\* C14: each call sends at most one GET and resolves to one outcome; a
\* failure is final: no future sends its request again.
C14_SingleAttempt ==
    /\ \A f \in BagToSet(pending) :
           /\ f.gets <= 1
           /\ f.gets = 1 <=> IsSome(f.request)
    /\ resolved.gets <= 1
    /\ resolved # NoResult => resolved.outcome \in Outcomes
    /\ BagCardinality(pending) <= MaxPending

\* a failed exchange delivered, with nothing of it left on the reactor
C14_Witness ==
    /\ resolved.outcome = "CommunicationError"
    /\ resolved.gets = 1
    /\ pending = EmptyBag

\* C18: the key cell is borrowed only while get_uri reads the key, never
\* while a future is suspended: whatever the order of calls and polls, no
\* call finds the cell borrowed, and the token a call reads is the stored
\* key, which is the token of the stored timestamp.
C18_KeyCellExclusive ==
    /\ borrows = 0
    /\ \A f \in BagToSet(pending) : f.holds = 0
    /\ call.outcome # "BorrowMutPanic"
    /\ IsSome(call.key) =>
           /\ call.key[1] = api_key.key
           /\ call.key[1] = TokenAt(api_key.raw_api_key, api_key.generated)

\* a call that replaced the key while the request of an earlier call,
\* built with the key of the hour before, is being read; both are pending
C18_Witness ==
    /\ call.regenerated
    /\ call.outcome = "Request"
    /\ \E f, g \in BagToSet(pending) :
           /\ f.stage = "body"
           /\ f.request[1].uri.query[1][7] = call.before.key
           /\ g.stage = "response"
           /\ g.request[1].uri = call.uri[1]

\* the URIs of the requests of a bag of futures
UrisOf(futures) ==
    {f.request[1].uri : f \in {g \in BagToSet(futures) : IsSome(g.request)}}
\* the pending requests with the URI, at either stage
UriCount(futures, uri) ==
    CopiesIn(make_request(RequestNew(uri)), futures)
        + CopiesIn([make_request(RequestNew(uri)) EXCEPT !.stage = "body"], futures)
\* the text after key= and after day= in the query of a URI
KeyIn(uri) == uri.query[1][7]
DayIn(uri) == uri.query[1][(CHOOSE i \in Positions(uri.query[1], "day") : TRUE) + 2]

\* C21: the URI of a request is built when the service method is called,
\* with the key read and the day offset computed at that call; no later
\* step (time passing over an hour or a day boundary, another call that
\* replaces the key, a poll) changes the URI of a request still pending.
C21_UriBoundAtCall ==
    [][\A uri \in UrisOf(pending) \cup UrisOf(pending') :
          LET was == UriCount(pending, uri)
              is == UriCount(pending', uri)
          IN  /\ is < was =>
                     /\ is = was - 1
                     /\ BagCardinality(pending') = BagCardinality(pending) - 1
              /\ is > was =>
                     /\ is = was + 1
                     /\ BagCardinality(pending') = BagCardinality(pending) + 1
                     /\ call'.uri = Some(uri)
                     /\ call'.at = now
                     /\ KeyIn(uri) = call'.key[1]
                     /\ KeyIn(uri) = get_key(api_key, now).key
                     /\ call'.op = "get_diversions" =>
                            DayIn(uri) =
                                ToString(IF IsSome(call'.args.day)
                                         THEN call'.args.day[1] - DateOf(now)
                                         ELSE 0)]_vars

\* a request built before midnight for the day after, still being read
\* after midnight, when another call has replaced the key
C21_Witness ==
    /\ DateOf(now) = DateOf(StartTick) + 1
    /\ api_key.generated = now
    /\ \E f \in BagToSet(pending) :
           /\ f.stage = "body"
           /\ KeyIn(f.request[1].uri) # api_key.key
           /\ KeyIn(f.request[1].uri) = TokenAt(api_key.raw_api_key, StartTick)
           /\ DayIn(f.request[1].uri) = "1"
====
